---------------------------- MODULE Spec2Model ----------------------------
(* A model of src/net/net.hh: forward_hash, qp (the per-core queue pair and *)
(* its transmit poller poll_tx) and device (the per-core queue table and    *)
(* the forwarding decision).                                                *)
(*                                                                          *)
(* Conventions.  A qp object is named by a number in QPs; the core it was   *)
(* constructed on (where its _tx_poller runs) is Home(q).  A packet is a    *)
(* pair <<origin, id>>: origin "proxy" for a packet handed to proxy_send,   *)
(* or the name of the upper-layer provider that produced it.  An entry of   *)
(* _pkt_providers is "proxy" for the lambda add_proxy registers, or the     *)
(* name of an upper-layer callback.  assert() is modelled as built (no      *)
(* NDEBUG): a failed assertion aborts the process (aborted = TRUE) and      *)
(* nothing runs afterwards.                                                 *)
EXTENDS Naturals, Sequences, FiniteSets

(***************************************************************************)
(* Program constants                                                       *)
(***************************************************************************)
\* poll_tx refills only when _tx_packetq.size() < 16
TxLowWater == 16
\* poll_tx stops refilling when _tx_packetq.size() == 128
TxBatchMax == 128
\* sizeof(forward_hash::data)
HashCapacity == 64

(***************************************************************************)
(* Bounds of the model                                                     *)
(***************************************************************************)
\* smp::count: the number of cores
NCores == 2
\* the number of qp objects ever constructed
NQp == 3
\* the longest proxies list and the longest _pkt_providers list explored
MaxProxies == 2
MaxProviders == 2
\* the number of proxy_send calls explored per qp
MaxProxySend == 2
\* poll_tx is explored while _packets_snt is below this
MaxSnt == 120
\* the same for a qp with more than a hundred providers (SpecMany)
MaxSntMany == 200
\* the number of add_proxy, register_packet_provider and proxy_send calls
\* explored, over all qps, where several cores run (SpecSmp)
MaxSmpOps == 2
\* the number of dispatch_packet calls explored
MaxFrames == 2
\* the number of l2receive calls explored, over all cores
MaxRx == 2
\* the largest hash value and the largest _rss_table_bits explored
MaxHash == 5
MaxRssBits == 1
\* the number of forward_hash::push_back calls explored on one object, after
\* the pushes it starts with
MaxPushes == 3

Cores == 0 .. (NCores - 1)
QPs == 1 .. NQp
\* the core a qp object was constructed on
Home(q) == q % NCores
\* the qp whose egress path the specification Spec explores
ThisQp == 1

\* The upper-layer egress providers (opaque std::function callbacks in the
\* code).  One whose name is in busy has a packet to give at every
\* invocation (it never runs dry); the others have nothing to give.
Uppers == {"ip", "arp"}

VARIABLES
    _pkt_providers,   \* qp::_pkt_providers   [QPs -> Seq(provider name)]
    proxies,          \* qp::proxies          [QPs -> Seq(Cores)]
    _proxy_packetq,   \* qp::_proxy_packetq   [QPs -> Seq(packet)]
    _tx_packetq,      \* qp::_tx_packetq      [QPs -> Seq(packet)]
    _packets_snt,     \* qp::_packets_snt     [QPs -> Nat]
    _last_tx_bunch,   \* qp::_last_tx_bunch   [QPs -> Nat]
    busy,             \* the upper-layer providers that have traffic
    given,            \* the number of packets each upper-layer provider
                      \* has given so far      [Uppers -> Nat]
    send_total,       \* history: the sum of the counts the batch send has
                      \* returned to poll_tx   [QPs -> Nat]
    batch_send,       \* which send(circular_buffer&) a qp has: the
                      \* "default" loop or a "backend" override
    add_proxy_calls,  \* history: the argument of every add_proxy call
    proxy_in,         \* history: every packet handed to proxy_send, in order
    proxy_out,        \* history: every packet the proxy provider returned
    last_poll,        \* history: what the last poll_tx call did, and on
                      \* which qp
    _queues,          \* device::_queues      [Cores -> QPs \cup {Null}]
    _rss_table_bits,  \* device::_rss_table_bits
    hw_queues,        \* what device::hw_queues_count() returns
    aborted,          \* an assertion has failed: the process is gone
    fwd,              \* history: the last forward_dst / hash2cpu call made
                      \* since the proxies last changed, and its result
    data,             \* forward_hash::data    [0 .. 63 -> byte]
    end_idx,          \* forward_hash::end_idx
    pushed,           \* history: the width and the argument of every
                      \* push_back call on the forward_hash, in order
    _rx_stream,       \* qp::_rx_stream: the packets produced into the
                      \* stream, in order      [QPs -> Seq(packet)]
    rx_listener,      \* whether _rx_stream has a listener [QPs -> BOOLEAN]
    deref,            \* history: the last access the device made to a slot
                      \* of _queues, and what came of it
    _proto_map,       \* interface::_proto_map: the protocol numbers that
                      \* have an l3_rx_stream
    packet_stream,    \* l3_rx_stream::packet_stream: the frames waiting for
                      \* the listener          [Protos -> Seq(frame)]
    rx_handled,       \* history: the frames the receive handler of a
                      \* protocol was invoked with [Protos -> Seq(frame)]
    dispatched        \* history: the last dispatch_packet call and what it
                      \* did with the frame

qpVars == <<_pkt_providers, proxies, _proxy_packetq, _tx_packetq,
            _packets_snt, _last_tx_bunch, busy, given, send_total, batch_send,
            add_proxy_calls, proxy_in, proxy_out, last_poll>>
devVars == <<_queues, _rss_table_bits, hw_queues, aborted>>

fhVars == <<data, end_idx, pushed>>

rxVars == <<_rx_stream, rx_listener, deref>>

ifVars == <<_proto_map, packet_stream, rx_handled, dispatched>>

vars == <<qpVars, devVars, fwd, fhVars, rxVars, ifVars>>

\* an empty slot of _queues (make_unique<qp*[]> value-initializes to nullptr)
Null == 0

\* fwd when no call is on record
NoFwd ==
    [op |-> "none", caller |-> 0, src |-> 0, hash |-> 0, ret |-> 0,
     twin |-> <<>>]

\* The protocol numbers frames carry (the Ethernet type field): IPv4, ARP and
\* IPv6
Protos == {2048, 2054, 34525}

\* dispatched before the first dispatch_packet call
NoDispatch == [n |-> 0, proto |-> 0, did |-> "none", failed |-> FALSE]

\* The state after interface(): no protocol is registered
InitInterface ==
    /\ _proto_map = {}
    /\ packet_stream = [proto \in Protos |-> <<>>]
    /\ rx_handled = [proto \in Protos |-> <<>>]
    /\ dispatched = NoDispatch

\* deref before the device has accessed any slot
NoDeref == [op |-> "none", core |-> 0, cpu |-> 0, got |-> "none"]

\* last_poll before the first poll_tx call
NoPoll == [called |-> FALSE, qp |-> 0, entry |-> 0, filled |-> 0, passes |-> 0,
           work |-> 0, asked |-> 0, drained |-> 0, ret |-> FALSE,
           sent |-> 0, overrun |-> FALSE, before |-> <<>>, provs |-> <<>>,
           calls |-> <<>>, handed |-> <<>>, single |-> <<>>]

\* F applied to the value of v, v being computed once (a loop's next turn
\* applied to the state its turn before has left)
Then(v, F(_)) == CHOOSE out \in {F(x) : x \in {v}} : TRUE

(***************************************************************************)
(* forward_hash: the bytes a packet contributes to the forwarding hash.    *)
(* A forward_hash value is the record of its members, with ok telling      *)
(* whether every assert on it has passed.                                  *)
(***************************************************************************)
\* x >> n on an unsigned value
ShiftRight(x, n) == x \div (2 ^ n)

\* the conversions uint8_t(x) and uint16_t(x)
U8(x) == x % 256
U16(x) == x % 65536

\* data is not initialised by the constructor: each of its bytes holds
\* whatever the storage held, here one of these values in every byte
Garbage == {0, 165}

\* forward_hash(), on storage filled with g
FreshForwardHash(g) ==
    [data |-> [i \in 0 .. (HashCapacity - 1) |-> g], end_idx |-> 0, ok |-> TRUE]

\* size()
Size(h) == h.end_idx

\* operator[](idx): no bounds check
At(h, idx) == h.data[idx]

\* push_back(uint8_t) that, instead of asserting, wraps to the start of data
\* when the array is full
PushBackU8Wrapping(h, b) ==
    IF ~h.ok THEN h
    ELSE IF ~(h.end_idx < HashCapacity)
         THEN [h EXCEPT !.data[0] = b, !.end_idx = 1]
         ELSE [h EXCEPT !.data[h.end_idx] = b, !.end_idx = @ + 1]

\* push_back(uint8_t b)
PushBackU8(h, b) ==
    IF ~h.ok THEN h
    ELSE IF ~(h.end_idx < HashCapacity) THEN [h EXCEPT !.ok = FALSE]
    ELSE [h EXCEPT !.data[h.end_idx] = b, !.end_idx = @ + 1]

\* push_back(uint16_t) writing the high byte first
PushBackU16BigEndian(h, b) ==
    PushBackU8(PushBackU8(h, U8(ShiftRight(b, 8))), U8(b))

\* push_back(uint16_t b)
PushBackU16(h, b) ==
    PushBackU8(PushBackU8(h, U8(b)), U8(ShiftRight(b, 8)))

\* push_back(uint32_t b)
PushBackU32(h, b) ==
    PushBackU16(PushBackU16(h, U16(b)), U16(ShiftRight(b, 16)))

\* one recorded call <<width, argument>> applied to h
PushBack(h, call) ==
    IF call[1] = 1 THEN PushBackU8(h, call[2])
    ELSE IF call[1] = 2 THEN PushBackU16(h, call[2])
    ELSE PushBackU32(h, call[2])

RECURSIVE PushAll(_, _)
\* the recorded calls of log applied to h, in order
PushAll(h, log) ==
    IF log = <<>> THEN h
    ELSE Then(PushBack(h, Head(log)), LAMBDA x : PushAll(x, Tail(log)))

\* the arguments explored, every byte of one differing from the others
U8Values == {7, 255}
U16Values == {513, 65534}
U32Values == {67305985, 2147417596}

\* the calls a forward_hash may already have taken when exploration starts:
\* none, or fourteen 4-byte pushes and a 1-byte push (57 bytes)
Prefill ==
    [i \in 1 .. ((HashCapacity \div 4) - 2) |-> <<4, 67305985 + i>>]
        \o << <<1, 9>> >>

\* a forward_hash built on storage g that has taken the calls of log
InitForwardHash(g, log) ==
    LET h == PushAll(FreshForwardHash(g), log)
    IN  /\ data = h.data
        /\ end_idx = h.end_idx
        /\ pushed = log

\* The state after construction: qp() leaves every container empty and the
\* counters 0.
\* the members of a qp other than the provider list, and the histories
InitQpRest ==
    /\ proxies = [q \in QPs |-> <<>>]
    /\ _proxy_packetq = [q \in QPs |-> <<>>]
    /\ _tx_packetq = [q \in QPs |-> <<>>]
    /\ _packets_snt = [q \in QPs |-> 0]
    /\ _last_tx_bunch = [q \in QPs |-> 0]
    /\ add_proxy_calls = [q \in QPs |-> <<>>]
    /\ proxy_in = [q \in QPs |-> <<>>]
    /\ proxy_out = [q \in QPs |-> <<>>]
    /\ last_poll = NoPoll
    /\ given = [pr \in Uppers |-> 0]
    /\ send_total = [q \in QPs |-> 0]
    /\ _rx_stream = [q \in QPs |-> <<>>]
    /\ rx_listener = [q \in QPs |-> FALSE]
    /\ deref = NoDeref

InitQp ==
    /\ _pkt_providers = [q \in QPs |-> <<>>]
    /\ InitQpRest

\* The state after device(): every slot empty, _rss_table_bits = 0, and the
\* default hw_queues_count() of 1.
InitDevice ==
    /\ _queues = [c \in Cores |-> Null]
    /\ _rss_table_bits = 0
    /\ hw_queues = 1
    /\ aborted = FALSE
    /\ fwd = NoFwd

Init ==
    /\ InitQp
    /\ InitDevice
    /\ InitForwardHash(0, <<>>)
    /\ InitInterface
    /\ busy = Uppers
    /\ batch_send \in [QPs -> {"default", "backend"}]
    /\ \A q \in QPs \ {ThisQp} : batch_send[q] = "default"

(***************************************************************************)
(* qp::register_packet_provider, qp::add_proxy, qp::proxy_send             *)
(***************************************************************************)
\* a registration that puts the callback at the front of the list
PushProviderFront(provs, func) == <<func>> \o provs

\* _pkt_providers.push_back(std::move(func))
PushProvider(provs, func) == Append(provs, func)

\* qp::register_packet_provider(func), run on core c
RegisterPacketProvider(c, q, func) ==
    /\ Len(_pkt_providers[q]) < MaxProviders
    /\ _pkt_providers' = [_pkt_providers EXCEPT ![q] = PushProvider(@, func)]
    /\ UNCHANGED <<proxies, _proxy_packetq, _tx_packetq, _packets_snt,
                   _last_tx_bunch, busy, given, send_total, batch_send, add_proxy_calls,
                   proxy_in, proxy_out, last_poll, devVars, fwd, fhVars, rxVars, ifVars>>

\* add_proxy with the proxies.empty() test inverted
AddProxyProvidersInverted(provs, prox) ==
    IF prox # <<>> THEN PushProvider(provs, "proxy") ELSE provs

\* add_proxy without the proxies.empty() test: a lambda per call
AddProxyProvidersEveryCall(provs, prox) == PushProvider(provs, "proxy")

\* the provider list after add_proxy: the proxy lambda is registered only
\* when proxies is still empty
AddProxyProviders(provs, prox) ==
    IF prox = <<>> THEN PushProvider(provs, "proxy") ELSE provs

\* an add_proxy call on q keeps the provider list within MaxProviders
ProviderRoom(q) == Len(_pkt_providers[q]) < MaxProviders \/ proxies[q] # <<>>

\* qp::add_proxy(cpu), run on core c
AddProxy(c, q, cpu) ==
    /\ Len(proxies[q]) < MaxProxies
    /\ _pkt_providers' =
           [_pkt_providers EXCEPT ![q] = AddProxyProviders(@, proxies[q])]
    /\ proxies' = [proxies EXCEPT ![q] = Append(@, cpu)]
    /\ add_proxy_calls' = [add_proxy_calls EXCEPT ![q] = Append(@, cpu)]
    /\ fwd' = NoFwd
    /\ UNCHANGED <<_proxy_packetq, _tx_packetq, _packets_snt, _last_tx_bunch,
                   busy, given, send_total, batch_send, proxy_in, proxy_out, last_poll, devVars, fhVars, rxVars, ifVars>>

\* _proxy_packetq.push_back(std::move(p))
ProxyPush(pq, p) == Append(pq, p)

\* proxy_send putting the packet straight into the outbound batch queue
ProxySendIntoBatch(c, q, p) ==
    /\ Len(proxy_in[q]) < MaxProxySend
    /\ _tx_packetq' = [_tx_packetq EXCEPT ![q] = Append(@, p)]
    /\ proxy_in' = [proxy_in EXCEPT ![q] = Append(@, p)]
    /\ UNCHANGED <<_pkt_providers, proxies, _proxy_packetq, _packets_snt,
                   _last_tx_bunch, busy, given, send_total, batch_send, add_proxy_calls,
                   proxy_out, last_poll, devVars, fwd, fhVars, rxVars, ifVars>>

\* qp::proxy_send(p), run on core c
ProxySend(c, q, p) ==
    /\ Len(proxy_in[q]) < MaxProxySend
    /\ _proxy_packetq' = [_proxy_packetq EXCEPT ![q] = ProxyPush(@, p)]
    /\ proxy_in' = [proxy_in EXCEPT ![q] = Append(@, p)]
    /\ UNCHANGED <<_pkt_providers, proxies, _tx_packetq, _packets_snt,
                   _last_tx_bunch, busy, given, send_total, batch_send, add_proxy_calls,
                   proxy_out, last_poll, devVars, fwd, fhVars, rxVars, ifVars>>

(***************************************************************************)
(* The egress providers as poll_tx sees them                               *)
(***************************************************************************)
\* an empty std::experimental::optional<packet>
NoPacket == <<"none", 0>>

\* the lambda returning the front of the queue without popping it
ProxyProviderKeepsFront(pq) ==
    IF pq # <<>>
    THEN [has |-> TRUE, pkt |-> Head(pq), rest |-> pq]
    ELSE [has |-> FALSE, pkt |-> <<"none", 0>>, rest |-> pq]

\* the lambda taking the back of the queue instead of the front
ProxyProviderFromBack(pq) ==
    IF pq # <<>>
    THEN [has |-> TRUE, pkt |-> pq[Len(pq)],
          rest |-> SubSeq(pq, 1, Len(pq) - 1)]
    ELSE [has |-> FALSE, pkt |-> <<"none", 0>>, rest |-> pq]

\* the lambda add_proxy registers: the front of _proxy_packetq, popped, or
\* nothing when the queue is empty
ProxyProvider(pq) ==
    IF pq # <<>>
    THEN [has |-> TRUE, pkt |-> Head(pq), rest |-> Tail(pq)]
    ELSE [has |-> FALSE, pkt |-> NoPacket, rest |-> pq]

\* auto p = pr(): one invocation of provider pr on the refill state s
Invoke(pr, s) ==
    IF pr = "proxy"
    THEN LET r == ProxyProvider(s.pq)
         IN  [has |-> r.has, pkt |-> r.pkt,
              s |-> [s EXCEPT !.pq = r.rest,
                              !.out = IF r.has THEN Append(@, r.pkt) ELSE @]]
    ELSE IF pr \in busy
         THEN [has |-> TRUE, pkt |-> <<pr, s.given[pr] + 1>>,
               s |-> [s EXCEPT !.given[pr] = @ + 1]]
         ELSE [has |-> FALSE, pkt |-> NoPacket, s |-> s]

(***************************************************************************)
(* qp::poll_tx                                                             *)
(***************************************************************************)
\* the test letting a queue of exactly 16 packets be refilled
NeedsRefillAtMark(tx) == Len(tx) <= TxLowWater

\* if (_tx_packetq.size() < 16)
NeedsRefill(tx) == Len(tx) < TxLowWater

\* the for loop without its break
BatchFullIgnored(tx) == FALSE

\* if (_tx_packetq.size() == 128) break;
BatchFull(tx) == Len(tx) = TxBatchMax

\* the loop condition without the work test
KeepRefillingBelowMax(work, tx) == Len(tx) < TxBatchMax

\* while (work && _tx_packetq.size() < 128)
KeepRefilling(work, tx) == work # 0 /\ Len(tx) < TxBatchMax

\* a push at the front of the queue
TxPushFront(tx, p) == <<p>> \o tx

\* _tx_packetq.push_back(std::move(p.value()))
TxPush(tx, p) == Append(tx, p)

\* The body of for (auto&& pr : _pkt_providers) for the i-th provider: it
\* is invoked and what it returns is pushed; brk tells that the loop breaks.
\* (calls records every invocation: the pass, the provider's position and
\* what it returned.)
ProviderTurn(provs, s, i) ==
    LET r == Invoke(provs[i], s)
        a == [r.s EXCEPT !.asked = @ + 1,
                         !.calls = Append(@, <<s.passes, i, r.pkt>>)]
    IN  IF r.has
        THEN LET b == [a EXCEPT !.work = @ + 1, !.tx = TxPush(@, r.pkt)]
             IN  [b EXCEPT !.brk = BatchFull(b.tx)]
        ELSE a

\* The loop body for the providers lo .. hi, one after the other, up to the
\* break.  (Evaluated by halving the range, which keeps the evaluation
\* shallow.)
RECURSIVE ProviderRange(_, _, _, _)
ProviderRange(provs, s, lo, hi) ==
    IF lo > hi THEN s
    ELSE IF lo = hi THEN ProviderTurn(provs, s, lo)
    ELSE Then(ProviderRange(provs, s, lo, (lo + hi) \div 2),
              LAMBDA m : IF m.brk THEN m
                         ELSE ProviderRange(provs, m,
                                            ((lo + hi) \div 2) + 1, hi))

\* for (auto&& pr : _pkt_providers) { ... }, from the i-th provider on
ProviderPass(provs, s, i) ==
    ProviderRange(provs, [s EXCEPT !.brk = FALSE], i, Len(provs))

\* One turn of do { work = 0; for ... } while (...): a pass over the providers
\* and the loop condition, kept in again.
RefillPass(provs, s) ==
    Then(ProviderPass(provs, [s EXCEPT !.work = 0, !.passes = @ + 1], 1),
         LAMBDA a : [a EXCEPT !.again = KeepRefilling(a.work, a.tx)])

\* Up to n turns of the do-while loop, stopping at the first turn whose loop
\* condition is false.  (Evaluated by halving n, which keeps the evaluation
\* shallow; the turns are run in order, one after the other.)
RECURSIVE RefillTurns(_, _, _)
RefillTurns(provs, s, n) ==
    IF n <= 1 THEN RefillPass(provs, s)
    ELSE Then(RefillTurns(provs, s, n \div 2),
              LAMBDA m : IF m.again
                         THEN RefillTurns(provs, m, n - (n \div 2))
                         ELSE m)

\* The do-while loop of poll_tx.  The code has no limit on the turns; the
\* model runs at most TxBatchMax of them and records in overrun that the
\* loop condition still held after the last.
Refill(provs, s) ==
    Then(RefillTurns(provs, s, TxBatchMax),
         LAMBDA r : [r EXCEPT !.overrun = r.again])

\* a turn of the loop that sends the back of the queue
SendTurnFromBack(st) ==
    IF st.p = <<>> THEN st
    ELSE [st EXCEPT !.single = Append(@, st.p[Len(st.p)]),
                    !.p = SubSeq(@, 1, Len(@) - 1), !.sent = @ + 1]

\* One turn of while (!p.empty()) { send(std::move(p.front()));
\* p.pop_front(); sent++; } on the state st = [p, sent, single], single
\* being the packets passed to send(packet) so far
SendTurn(st) ==
    IF st.p = <<>> THEN st
    ELSE [st EXCEPT !.single = Append(@, Head(st.p)),
                    !.p = Tail(@), !.sent = @ + 1]

\* n turns of the loop (a turn on an empty queue is the loop's exit)
RECURSIVE SendTurns(_, _)
SendTurns(st, n) ==
    IF n <= 1 THEN SendTurn(st)
    ELSE Then(SendTurns(st, n \div 2),
              LAMBDA m : IF m.p = <<>> THEN m
                         ELSE SendTurns(m, n - (n \div 2)))

\* virtual uint32_t send(circular_buffer<packet>& p): the default loop
DefaultSend(p) ==
    LET r == SendTurns([p |-> p, sent |-> 0, single |-> <<>>], Len(p) + 1)
    IN  [sent |-> r.sent, rest |-> r.p, single |-> r.single]

\* a backend's override of send(circular_buffer<packet>&): it takes as many
\* packets from the front as it has room for and returns that count
BackendSend(p, room) ==
    LET n == IF room < Len(p) THEN room ELSE Len(p)
    IN  [sent |-> n, rest |-> SubSeq(p, n + 1, Len(p)), single |-> <<>>]

\* the room a backend may have when poll_tx calls it
Rooms == {0, TxBatchMax - TxLowWater, TxBatchMax - TxLowWater + 1, TxBatchMax}

\* _last_tx_bunch = send(_tx_packetq)
SendBatch(kind, p, room) ==
    IF kind = "default" THEN DefaultSend(p) ELSE BackendSend(p, room)

\* poll_tx reporting progress only when the backend sent something
PollTxReturnIfSent(tx, sent) == sent # 0

\* if (!_tx_packetq.empty()) { ...; return true; } return false;
\* tx is the queue after the refill, sent what send() returned
PollTxReturn(tx, sent) == tx # <<>>

\* the counter set to the count of the last send instead of growing by it
PacketsSntAssigned(snt, sent) == sent

\* _packets_snt += _last_tx_bunch
PacketsSntAfter(snt, sent) == snt + sent

\* qp::poll_tx(), run by the poller of the qp's home core
PollTx(q) ==
    LET s0 == [tx |-> _tx_packetq[q], pq |-> _proxy_packetq[q], out |-> <<>>,
               work |-> 0, passes |-> 0, asked |-> 0, again |-> FALSE,
               overrun |-> FALSE, given |-> given, calls |-> <<>>,
               brk |-> FALSE]
    IN  \E s1 \in {IF NeedsRefill(s0.tx) THEN Refill(_pkt_providers[q], s0)
                    ELSE s0} :
        LET handed == s1.tx # <<>>
            Ret(sent) == PollTxReturn(s1.tx, sent)
        IN
        /\ _proxy_packetq' = [_proxy_packetq EXCEPT ![q] = s1.pq]
        /\ proxy_out' = [proxy_out EXCEPT ![q] = @ \o s1.out]
        /\ given' = s1.given
        /\ \E room \in Rooms :
             \E r \in {IF handed THEN SendBatch(batch_send[q], s1.tx, room)
                       ELSE [sent |-> 0, rest |-> s1.tx, single |-> <<>>]} :
                 /\ _tx_packetq' = [_tx_packetq EXCEPT ![q] = r.rest]
                 /\ _last_tx_bunch' = [_last_tx_bunch EXCEPT ![q] =
                        IF handed THEN r.sent ELSE @]
                 /\ _packets_snt' = [_packets_snt EXCEPT ![q] =
                        IF handed THEN PacketsSntAfter(@, r.sent) ELSE @]
                 /\ send_total' = [send_total EXCEPT ![q] = @ + r.sent]
                 /\ last_poll' =
                        [called |-> TRUE, qp |-> q, entry |-> Len(s0.tx),
                         filled |-> Len(s1.tx), passes |-> s1.passes,
                         work |-> s1.work, asked |-> s1.asked,
                         drained |-> Len(s1.out), ret |-> Ret(r.sent),
                         sent |-> r.sent, overrun |-> s1.overrun,
                         before |-> s0.tx, provs |-> _pkt_providers[q],
                         calls |-> s1.calls,
                         handed |-> s1.tx, single |-> r.single]
        /\ UNCHANGED <<_pkt_providers, proxies, busy, batch_send,
                       add_proxy_calls, proxy_in, devVars, fwd, fhVars,
                       rxVars, ifVars>>

(***************************************************************************)
(* Spec: the egress path of one qp.  Its home core registers providers and *)
(* proxies and polls; any core may hand it packets with proxy_send.        *)
(***************************************************************************)
\* the core the next add_proxy call on q names: the caller adds the cores
\* after its own, in cyclic order
NextPeer(q) == (Home(q) + Len(proxies[q]) + 1) % NCores

\* the next packet handed to proxy_send on q: packets are distinct objects
NextProxyPacket(q) == <<"proxy", Len(proxy_in[q]) + 1>>

EgressNext(q) ==
    \/ \E func \in Uppers :
         /\ \A i \in 1 .. Len(_pkt_providers[q]) : _pkt_providers[q][i] # func
         /\ RegisterPacketProvider(Home(q), q, func)
    \/ /\ ProviderRoom(q)
       /\ AddProxy(Home(q), q, NextPeer(q))
    \/ \E c \in Cores : ProxySend(c, q, NextProxyPacket(q))
    \/ /\ _packets_snt[q] < MaxSnt
       /\ PollTx(q)

Next == EgressNext(ThisQp)

Spec == Init /\ [][Next]_vars

(***************************************************************************)
(* SpecMany: the egress path of a qp that has many providers.  The qp      *)
(* starts with two upper-layer providers registered, or with one           *)
(* registered 127 or 128 times, so that one pass over the providers can    *)
(* fill the batch; add_proxy then puts the proxy provider behind them.     *)
(* SpecManyLive adds that the poller keeps calling poll_tx.                *)
(***************************************************************************)
\* the provider lists the qp may start with
StartProviders ==
    {<<"ip", "arp">>, [i \in 1 .. (TxBatchMax - 1) |-> "ip"],
     [i \in 1 .. TxBatchMax |-> "ip"]}

InitMany ==
    /\ _pkt_providers \in
           {[q \in QPs |-> IF q = ThisQp THEN l ELSE <<>>] : l \in StartProviders}
    /\ InitQpRest
    /\ InitDevice
    /\ InitForwardHash(0, <<>>)
    /\ InitInterface
    /\ busy \in {{}, Uppers}
    /\ batch_send \in [QPs -> {"default", "backend"}]
    /\ \A q \in QPs \ {ThisQp} : batch_send[q] = "default"

\* poll_tx of the qp, run by the poller of its home core
PollMany == _packets_snt[ThisQp] < MaxSntMany /\ PollTx(ThisQp)

NextMany ==
    \/ /\ proxies[ThisQp] = <<>>
       /\ AddProxy(Home(ThisQp), ThisQp, NextPeer(ThisQp))
    \/ \E c \in Cores : ProxySend(c, ThisQp, NextProxyPacket(ThisQp))
    \/ PollMany

SpecMany == InitMany /\ [][NextMany]_vars

SpecManyLive == SpecMany /\ WF_vars(PollMany)

(***************************************************************************)
(* device: queue_for_cpu, hash2qid, forward_dst, hash2cpu                  *)
(***************************************************************************)
\* qp& queue_for_cpu(unsigned cpu) { return *_queues[cpu]; }
QueueForCpu(cpu) == _queues[cpu]

\* bool may_forward() { return !proxies.empty(); }
MayForward(q) == proxies[q] # <<>>

\* return hash % hw_queues_count();
Hash2Qid(hash) == hash % hw_queues

\* forward_dst returning core 0 instead of src_cpuid when it keeps the
\* packet local
ForwardDstLocalIsZero(src_cpuid, hash) ==
    LET q == QueueForCpu(src_cpuid)
        idx == ShiftRight(hash, _rss_table_bits) % (Len(proxies[q]) + 1)
    IN  IF idx # 0 THEN proxies[q][idx] ELSE 0

\* forward_dst taking the index modulo proxies.size()
ForwardDstModSize(src_cpuid, hash) ==
    LET q == QueueForCpu(src_cpuid)
        idx == ShiftRight(hash, _rss_table_bits) % Len(proxies[q])
    IN  IF ~MayForward(q) THEN src_cpuid
        ELSE IF idx # 0 THEN proxies[q][idx] ELSE src_cpuid

\* What forward_dst(src_cpuid, hashfn) returns when hashfn() is hash and the
\* slot of src_cpuid holds a qp.  C++ proxies[idx - 1] is the idx-th entry.
ForwardDstValue(src_cpuid, hash) ==
    LET q == QueueForCpu(src_cpuid)
        h == ShiftRight(hash, _rss_table_bits)
        idx == h % (Len(proxies[q]) + 1)
    IN  IF ~MayForward(q) THEN src_cpuid
        ELSE IF idx # 0 THEN proxies[q][idx] ELSE src_cpuid

\* the index taken without the modulo
ForwardDstIndexUnreduced(src_cpuid, hash) ==
    ShiftRight(hash, _rss_table_bits)

\* auto idx = hash % (qp.proxies.size() + 1), hash being hashfn() >>
\* _rss_table_bits: 0 stands for src_cpuid, idx >= 1 for proxies[idx - 1]
ForwardDstIndex(src_cpuid, hash) ==
    ShiftRight(hash, _rss_table_bits)
        % (Len(proxies[QueueForCpu(src_cpuid)]) + 1)

\* return forward_dst(hash2qid(hash), [hash] { return hash; });
Hash2CpuValue(hash) == ForwardDstValue(Hash2Qid(hash), hash)

\* device::forward_dst(src_cpuid, hashfn), called on core src_cpuid, with the
\* slot of src_cpuid holding a qp
ForwardDst(src_cpuid, hash) ==
    /\ ~aborted
    /\ QueueForCpu(src_cpuid) # Null
    /\ fwd' = [op |-> "forward_dst", caller |-> src_cpuid, src |-> src_cpuid,
               hash |-> hash, ret |-> ForwardDstValue(src_cpuid, hash),
               twin |-> <<>>]
    /\ UNCHANGED <<qpVars, devVars, fhVars, rxVars, ifVars>>

\* history: the caller and the result of the call on record, when that was
\* a hash2cpu call with this hash (nothing has changed since), else <<>>
Twin(hash) ==
    IF fwd.op = "hash2cpu" /\ fwd.hash = hash
    THEN <<fwd.caller, fwd.ret>>
    ELSE <<>>

\* hash2cpu starting from the calling core, forward_dst(engine.cpu_id(), ...)
Hash2CpuFromCaller(c, hash) ==
    /\ ~aborted
    /\ QueueForCpu(c) # Null
    /\ fwd' = [op |-> "hash2cpu", caller |-> c, src |-> c,
               hash |-> hash, ret |-> ForwardDstValue(c, hash),
               twin |-> Twin(hash)]
    /\ UNCHANGED <<qpVars, devVars, fhVars, rxVars, ifVars>>

\* device::hash2cpu(hash), called on core c, with the slot hash2qid selects
\* holding a qp
Hash2Cpu(c, hash) ==
    /\ ~aborted
    /\ QueueForCpu(Hash2Qid(hash)) # Null
    /\ fwd' = [op |-> "hash2cpu", caller |-> c, src |-> Hash2Qid(hash),
               hash |-> hash, ret |-> Hash2CpuValue(hash),
               twin |-> Twin(hash)]
    /\ UNCHANGED <<qpVars, devVars, fhVars, rxVars, ifVars>>

(***************************************************************************)
(* SpecFwd: the forwarding decision.  Every core has installed the qp it   *)
(* constructed (the state after start-up), the backend has fixed           *)
(* _rss_table_bits and its hardware queue count, and cores add proxies and *)
(* ask for forwarding destinations.                                        *)
(***************************************************************************)
Hashes == 0 .. MaxHash

\* the qp core c constructs and installs at start-up
CoreQp(c) == IF c = 0 THEN NCores ELSE c

\* the number of add_proxy calls made so far, over all qps
TotalProxies ==
    Cardinality({x \in QPs \X (1 .. MaxProxies) : x[2] <= Len(proxies[x[1]])})

InitFwd ==
    /\ InitQp
    /\ InitForwardHash(0, <<>>)
    /\ InitInterface
    /\ busy = {}
    /\ batch_send = [q \in QPs |-> "default"]
    /\ _queues = [c \in Cores |-> CoreQp(c)]
    /\ _rss_table_bits \in 0 .. MaxRssBits
    /\ hw_queues \in 1 .. NCores
    /\ aborted = FALSE
    /\ fwd = NoFwd

NextFwd ==
    \/ \E c \in Cores, cpu \in Cores :
         /\ TotalProxies < MaxProxies
         /\ ProviderRoom(CoreQp(c))
         /\ AddProxy(c, CoreQp(c), cpu)
    \/ \E src \in Cores, hash \in Hashes : ForwardDst(src, hash)
    \/ \E c \in Cores, hash \in Hashes : Hash2Cpu(c, hash)

SpecFwd == InitFwd /\ [][NextFwd]_vars

(***************************************************************************)
(* device::set_local_queue                                                 *)
(***************************************************************************)
\* set_local_queue built with NDEBUG: the assertion is compiled out
AssertCompiledOut(slot) == TRUE

\* assert(!_queues[engine.cpu_id()])
SlotIsFree(slot) == slot = Null

\* device::set_local_queue(dev), called on core c with dev owning qp q
SetLocalQueue(c, q) ==
    /\ ~aborted
    /\ IF SlotIsFree(_queues[c])
       THEN /\ _queues' = [_queues EXCEPT ![c] = q]
            /\ UNCHANGED aborted
       ELSE /\ aborted' = TRUE
            /\ UNCHANGED _queues
    /\ fwd' = NoFwd
    /\ UNCHANGED <<qpVars, _rss_table_bits, hw_queues, fhVars, rxVars, ifVars>>

(***************************************************************************)
(* device: the accesses through a slot of _queues (queue_for_cpu,          *)
(* local_queue, l2receive, receive, forward_dst, hash2cpu).  None of them  *)
(* tests the slot.                                                         *)
(***************************************************************************)
\* What *_queues[cpu] or _queues[cpu]-> comes to.  A slot holding a qp gives
\* that qp.  An empty slot is a null pointer and dereferencing it is
\* undefined: the build may fault (the process is gone) or carry on with a
\* reference to no object.
DerefOutcomes(cpu) ==
    IF _queues[cpu] # Null THEN {"qp"} ELSE {"fault", "absent"}

\* the access op made on core c through slot cpu has come to got
Accessed(op, c, cpu, got) ==
    /\ deref' = [op |-> op, core |-> c, cpu |-> cpu, got |-> got]
    /\ aborted' = (got = "fault")
    /\ fwd' = NoFwd
    /\ UNCHANGED <<_queues, _rss_table_bits, hw_queues, fhVars, ifVars>>

\* the number of l2receive calls that have produced a packet
TotalRx ==
    Cardinality({x \in QPs \X (1 .. MaxRx) : x[2] <= Len(_rx_stream[x[1]])})

\* the next packet handed to l2receive: packets are distinct objects
NextRxPacket == <<"rx", TotalRx + 1>>

\* device::queue_for_cpu(cpu), called on core c
QueueForCpuCall(c, cpu) ==
    /\ ~aborted
    /\ \E got \in DerefOutcomes(cpu) : Accessed("queue_for_cpu", c, cpu, got)
    /\ UNCHANGED <<qpVars, _rx_stream, rx_listener>>

\* device::local_queue(), called on core c (engine.cpu_id() is c)
LocalQueue(c) ==
    /\ ~aborted
    /\ \E got \in DerefOutcomes(c) : Accessed("local_queue", c, c, got)
    /\ UNCHANGED <<qpVars, _rx_stream, rx_listener>>

\* l2receive producing into the stream of the qp of core 0, whichever core
\* calls it
L2ReceiveOnFirstCore(c, p) ==
    /\ ~aborted
    /\ TotalRx < MaxRx
    /\ \E got \in DerefOutcomes(c) :
         /\ Accessed("l2receive", c, c, got)
         /\ _rx_stream' =
                IF got = "qp" /\ _queues[0] # Null
                THEN [_rx_stream EXCEPT ![_queues[0]] = Append(@, p)]
                ELSE _rx_stream
    /\ UNCHANGED <<qpVars, rx_listener>>

\* device::l2receive(p), called on core c: the packet is produced into the
\* _rx_stream of the qp in the slot of c.  Through an empty slot the produce
\* call, if it does not fault, works on memory that is no qp.
L2Receive(c, p) ==
    /\ ~aborted
    /\ TotalRx < MaxRx
    /\ \E got \in DerefOutcomes(c) :
         /\ Accessed("l2receive", c, c, got)
         /\ _rx_stream' =
                IF got = "qp"
                THEN [_rx_stream EXCEPT ![_queues[c]] = Append(@, p)]
                ELSE _rx_stream
    /\ UNCHANGED <<qpVars, rx_listener>>

\* device::receive(next_packet), called on core c: the stream of the qp in
\* the slot of c gets its listener, then rx_start() runs (the default does
\* nothing)
Receive(c) ==
    /\ ~aborted
    /\ \E got \in DerefOutcomes(c) :
         /\ Accessed("receive", c, c, got)
         /\ rx_listener' =
                IF got = "qp"
                THEN [rx_listener EXCEPT ![_queues[c]] = TRUE]
                ELSE rx_listener
    /\ UNCHANGED <<qpVars, _rx_stream>>

\* device::forward_dst(src_cpuid, hashfn), called on core c, with the slot
\* of src_cpuid empty: forward_dst reads may_forward() and proxies through
\* the null reference
ForwardDstAbsent(c, src_cpuid) ==
    /\ ~aborted
    /\ _queues[src_cpuid] = Null
    /\ \E got \in DerefOutcomes(src_cpuid) :
         Accessed("forward_dst", c, src_cpuid, got)
    /\ UNCHANGED <<qpVars, _rx_stream, rx_listener>>

\* device::hash2cpu(hash), called on core c, with the slot hash2qid(hash)
\* selects empty
Hash2CpuAbsent(c, hash) ==
    /\ ~aborted
    /\ _queues[Hash2Qid(hash)] = Null
    /\ \E got \in DerefOutcomes(Hash2Qid(hash)) :
         Accessed("hash2cpu", c, Hash2Qid(hash), got)
    /\ UNCHANGED <<qpVars, _rx_stream, rx_listener>>

(***************************************************************************)
(* SpecDev: the device while the cores start up.  Each core may install a  *)
(* qp it constructed, and any core may make any access, also through a     *)
(* slot that is still empty.                                               *)
(***************************************************************************)
InitDev ==
    /\ InitQp
    /\ InitForwardHash(0, <<>>)
    /\ InitInterface
    /\ busy = {}
    /\ batch_send = [q \in QPs |-> "default"]
    /\ _queues = [c \in Cores |-> Null]
    /\ _rss_table_bits = 0
    /\ hw_queues \in 1 .. NCores
    /\ aborted = FALSE
    /\ fwd = NoFwd

NextDev ==
    \/ \E c \in Cores, q \in QPs : Home(q) = c /\ SetLocalQueue(c, q)
    \/ \E c \in Cores, cpu \in Cores : QueueForCpuCall(c, cpu)
    \/ \E c \in Cores : LocalQueue(c)
    \/ \E c \in Cores : L2Receive(c, NextRxPacket)
    \/ \E c \in Cores : Receive(c)
    \/ \E c \in Cores, src \in Cores : ForwardDstAbsent(c, src)
    \/ \E c \in Cores, hash \in Hashes : Hash2CpuAbsent(c, hash)

SpecDev == InitDev /\ [][NextDev]_vars

(***************************************************************************)
(* interface: register_l3 and dispatch_packet, on the interface of one     *)
(* core, and the listener task that hands the frames of a stream to the    *)
(* receive handler.                                                        *)
(***************************************************************************)
\* the core whose interface this is
IfCore == 0

\* The frames dispatch_packet may be given as its n-th: a protocol number,
\* whether the forward predicate lets the frame go to another core, and the
\* hash of the key the predicate builds.
Frames(n) ==
    [id : {n}, proto : Protos, eligible : BOOLEAN, hash : {0, 1, MaxHash}]

\* register_l3(proto_num, next, forward): a protocol number already in the
\* map keeps its record, a new one gets an l3_rx_stream
RegisterL3(c, proto) ==
    /\ ~aborted
    /\ _proto_map' = _proto_map \cup {proto}
    /\ UNCHANGED <<packet_stream, rx_handled, dispatched>>
    /\ UNCHANGED <<qpVars, devVars, fwd, fhVars, rxVars>>

\* a lookup that creates the entry it does not find (map[proto_num])
ProtoMapLookupInserts(map, proto) == map \cup {proto}

\* _proto_map after dispatch_packet has looked proto up: finding nothing
\* adds nothing
ProtoMapAfterLookup(map, proto) == map

\* the core the frame f, received on core c, belongs to
DispatchTarget(c, f) == IF f.eligible THEN Hash2CpuValue(f.hash) ELSE c

\* dispatch_packet(p), on core c, of the frame f
DispatchPacket(c, f) ==
    LET did == IF f.proto \notin _proto_map THEN "dropped"
               ELSE IF DispatchTarget(c, f) # c THEN "forwarded"
               ELSE "local"
        to == QueueForCpu(DispatchTarget(c, f))
    IN  /\ ~aborted
        /\ dispatched.n < MaxFrames
        /\ f \in Frames(dispatched.n + 1)
        /\ _proto_map' = ProtoMapAfterLookup(_proto_map, f.proto)
        /\ dispatched' = [n |-> f.id, proto |-> f.proto, did |-> did,
                          failed |-> FALSE]
        /\ packet_stream' =
               IF did = "local"
               THEN [packet_stream EXCEPT ![f.proto] = Append(@, f)]
               ELSE packet_stream
        /\ _proxy_packetq' =
               IF did = "forwarded"
               THEN [_proxy_packetq EXCEPT ![to] = ProxyPush(@, <<"frame", f.id>>)]
               ELSE _proxy_packetq
        /\ proxy_in' =
               IF did = "forwarded"
               THEN [proxy_in EXCEPT ![to] = Append(@, <<"frame", f.id>>)]
               ELSE proxy_in
        /\ UNCHANGED <<_pkt_providers, proxies, _tx_packetq, _packets_snt,
                       _last_tx_bunch, busy, given, send_total, batch_send, add_proxy_calls,
                       proxy_out, last_poll, rx_handled>>
        /\ UNCHANGED <<devVars, fwd, fhVars, rxVars>>

\* the listener task of the stream of proto: it takes the frame at the front
\* and invokes the receive handler with it
DeliverL3(proto) ==
    /\ ~aborted
    /\ proto \in _proto_map
    /\ packet_stream[proto] # <<>>
    /\ packet_stream' = [packet_stream EXCEPT ![proto] = Tail(@)]
    /\ rx_handled' = [rx_handled EXCEPT ![proto] = Append(@, Head(packet_stream[proto]))]
    /\ UNCHANGED <<_proto_map, dispatched>>
    /\ UNCHANGED <<qpVars, devVars, fwd, fhVars, rxVars>>

(***************************************************************************)
(* SpecIf: the interface of one core after start-up (every core has        *)
(* installed its qp).  Protocols register, frames of registered and of     *)
(* unregistered protocols are dispatched, and the core's qp gets proxies.  *)
(***************************************************************************)
InitIf ==
    /\ InitQp
    /\ InitForwardHash(0, <<>>)
    /\ InitInterface
    /\ busy = {}
    /\ batch_send = [q \in QPs |-> "default"]
    /\ _queues = [c \in Cores |-> CoreQp(c)]
    /\ _rss_table_bits = 0
    /\ hw_queues = 1
    /\ aborted = FALSE
    /\ fwd = NoFwd

NextIf ==
    \/ \E proto \in Protos : RegisterL3(IfCore, proto)
    \/ \E f \in Frames(dispatched.n + 1) : DispatchPacket(IfCore, f)
    \/ \E proto \in Protos : DeliverL3(proto)
    \/ /\ proxies[CoreQp(IfCore)] = <<>>
       /\ AddProxy(IfCore, CoreQp(IfCore), NextPeer(CoreQp(IfCore)))

SpecIf == InitIf /\ [][NextIf]_vars

(***************************************************************************)
(* SpecSmp: the cores of one device.  Each core installs a qp it has       *)
(* constructed and runs the operations of its own installed qp (its        *)
(* scheduler is the only caller of add_proxy, register_packet_provider and *)
(* poll_tx); any core may hand a packet to any installed qp with           *)
(* proxy_send.  The upper layers have no traffic of their own.             *)
(***************************************************************************)
\* func is an entry of the provider list of q
Registered(q, func) ==
    \E i \in 1 .. Len(_pkt_providers[q]) : _pkt_providers[q][i] = func

\* the qps some slot of _queues holds
Installed == {_queues[c] : c \in Cores} \ {Null}

\* the number of proxy_send calls made so far, over all qps
TotalProxySends ==
    Cardinality({x \in QPs \X (1 .. MaxProxySend) :
                     x[2] <= Len(proxy_in[x[1]])})

\* the number of upper-layer providers registered so far, over all qps
TotalUppers ==
    Cardinality({x \in QPs \X Uppers : Registered(x[1], x[2])})

\* the calls counted against MaxSmpOps
SmpOps == TotalProxies + TotalProxySends + TotalUppers

\* the operations core c may run
CoreStep(c) ==
    \/ \E q \in QPs \ Installed : Home(q) = c /\ SetLocalQueue(c, q)
    \/ /\ ~aborted
       /\ _queues[c] # Null
       /\ SmpOps < MaxSmpOps
       /\ ProviderRoom(_queues[c])
       /\ AddProxy(c, _queues[c], NextPeer(_queues[c]))
    \/ /\ ~aborted
       /\ _queues[c] # Null
       /\ SmpOps < MaxSmpOps
       /\ \E func \in Uppers :
            /\ ~Registered(_queues[c], func)
            /\ RegisterPacketProvider(c, _queues[c], func)
    \/ /\ ~aborted
       /\ SmpOps < MaxSmpOps
       /\ \E t \in Cores :
            /\ _queues[t] # Null
            /\ ProxySend(c, _queues[t], NextProxyPacket(_queues[t]))
    \/ /\ ~aborted
       /\ _queues[c] # Null
       /\ _packets_snt[_queues[c]] < MaxSnt
       /\ PollTx(_queues[c])

InitSmp ==
    /\ InitQp
    /\ InitDevice
    /\ InitForwardHash(0, <<>>)
    /\ InitInterface
    /\ busy = {}
    /\ batch_send = [q \in QPs |-> "default"]

NextSmp == \E c \in Cores : CoreStep(c)

SpecSmp == InitSmp /\ [][NextSmp]_vars

(***************************************************************************)
(* SpecHash: one forward_hash object taking push_back calls.  It starts    *)
(* fresh or already holding 57 bytes, so that the calls explored fill it   *)
(* to its capacity and past it.                                            *)
(***************************************************************************)
\* the object as a forward_hash value
ThisHash == [data |-> data, end_idx |-> end_idx, ok |-> ~aborted]

\* the push_back calls made since exploration started
PushesMade ==
    IF Len(pushed) >= Len(Prefill)
    THEN Len(pushed) - Len(Prefill)
    ELSE Len(pushed)

\* the object becomes h after a call push_back(b) of width w; a failed
\* assert ends the process
StoreHash(h, w, b) ==
    /\ data' = h.data
    /\ end_idx' = h.end_idx
    /\ aborted' = ~h.ok
    /\ pushed' = Append(pushed, <<w, b>>)
    /\ UNCHANGED <<qpVars, _queues, _rss_table_bits, hw_queues, fwd, rxVars, ifVars>>

PushU8(b) ==
    /\ ~aborted
    /\ PushesMade < MaxPushes
    /\ StoreHash(PushBackU8(ThisHash, b), 1, b)

PushU16(b) ==
    /\ ~aborted
    /\ PushesMade < MaxPushes
    /\ StoreHash(PushBackU16(ThisHash, b), 2, b)

PushU32(b) ==
    /\ ~aborted
    /\ PushesMade < MaxPushes
    /\ StoreHash(PushBackU32(ThisHash, b), 4, b)

InitHash ==
    /\ InitQp
    /\ InitDevice
    /\ busy = {}
    /\ batch_send = [q \in QPs |-> "default"]
    /\ \E g \in Garbage : \E log \in {<<>>, Prefill} : InitForwardHash(g, log)
    /\ InitInterface

NextHash ==
    \/ \E b \in U8Values : PushU8(b)
    \/ \E b \in U16Values : PushU16(b)
    \/ \E b \in U32Values : PushU32(b)

SpecHash == InitHash /\ [][NextHash]_vars

(***************************************************************************)
(* Properties of the egress path (checked under Spec)                      *)
(***************************************************************************)
\* s is a prefix of t
IsPrefix(s, t) == Len(s) <= Len(t) /\ s = SubSeq(t, 1, Len(s))

\* the number of entries of provs that are the proxy lambda
ProxyProviders(provs) == Cardinality({i \in 1 .. Len(provs) : provs[i] = "proxy"})

\* C1: _tx_packetq never holds more than 128 packets, neither between calls
\* nor at the end of a refill (before the backend send removes packets),
\* even with providers that never run out of packets.
C1_TxQueueAtMost128 ==
    /\ \A q \in QPs : Len(_tx_packetq[q]) <= TxBatchMax
    /\ last_poll.filled <= TxBatchMax

\* C1 witness: a refill with two providers that never run dry has filled
\* the queue to 128 from an odd length and the backend has sent nothing.
C1_Witness ==
    /\ Len(_pkt_providers[ThisQp]) = 2
    /\ \A i \in 1 .. 2 : _pkt_providers[ThisQp][i] \in busy
    /\ (last_poll.called /\ last_poll.qp = ThisQp)
    /\ last_poll.entry = TxLowWater - 1
    /\ last_poll.filled = TxBatchMax
    /\ Len(_tx_packetq[ThisQp]) = TxBatchMax

\* C2: the packets the proxy provider has returned are a prefix of the
\* packets handed to proxy_send, in the same order; those not yet returned
\* are still queued in order (none is lost), and one invocation returns at
\* most one packet (a call takes no more packets than it made passes).
C2_ProxyFifo ==
    /\ \A q \in QPs :
          /\ IsPrefix(proxy_out[q], proxy_in[q])
          /\ proxy_in[q] = proxy_out[q] \o _proxy_packetq[q]
    /\ last_poll.drained <= last_poll.passes

\* C2 witness: two packets were queued together and both have been drained.
C2_Witness ==
    /\ Len(proxy_out[ThisQp]) >= 2
    /\ last_poll.qp = ThisQp
    /\ last_poll.drained >= 2

\* C3: after n >= 1 add_proxy calls the provider list holds exactly one
\* proxy lambda (none before the first call) and proxies holds the n
\* arguments in call order; with no other provider registered the provider
\* list has length 1.  The lambda is appended by the call that finds
\* proxies empty, and no later add_proxy call changes the provider list.
C3_OneProxyProvider ==
    /\ [](\A q \in QPs :
            /\ proxies[q] = add_proxy_calls[q]
            /\ ProxyProviders(_pkt_providers[q]) =
                   IF Len(add_proxy_calls[q]) >= 1 THEN 1 ELSE 0
            /\ /\ Len(add_proxy_calls[q]) >= 1
               /\ \A i \in 1 .. Len(_pkt_providers[q]) :
                      _pkt_providers[q][i] \notin Uppers
               => Len(_pkt_providers[q]) = 1)
    /\ [][\A q \in QPs :
            add_proxy_calls'[q] # add_proxy_calls[q] =>
                _pkt_providers'[q] =
                    IF add_proxy_calls[q] = <<>>
                    THEN Append(_pkt_providers[q], "proxy")
                    ELSE _pkt_providers[q]]_vars

\* C3 witness: add_proxy was called twice, after another provider had been
\* registered.
C3_Witness ==
    /\ Len(add_proxy_calls[ThisQp]) >= 2
    /\ Len(_pkt_providers[ThisQp]) = 2
    /\ _pkt_providers[ThisQp][2] = "proxy"

\* C7: poll_tx returns true exactly when _tx_packetq was non-empty after the
\* refill step (and so was handed to send), whatever count send reported;
\* it returns false exactly when nothing was left over from earlier calls
\* and no provider gave a packet.
C7_PollTxReturn ==
    last_poll.called =>
        /\ last_poll.ret <=> last_poll.filled > 0
        /\ ~last_poll.ret <=> (last_poll.entry = 0 /\ last_poll.filled = 0)

\* C7 witness: poll_tx returned true although the backend sent no packet.
C7_Witness ==
    /\ (last_poll.called /\ last_poll.qp = ThisQp)
    /\ last_poll.ret
    /\ last_poll.sent = 0
    /\ last_poll.filled > 0

\* C8: the refill of a poll_tx call ends (within 128 turns of its loop,
\* each but the last adding a packet), and when it ends the queue holds
\* exactly 128 packets or the last pass over the providers gave none; a call
\* that finds 16 or more packets makes no pass.
C8_RefillEnds ==
    last_poll.called =>
        /\ ~last_poll.overrun
        /\ last_poll.entry < TxLowWater =>
               /\ last_poll.passes >= 1
               /\ last_poll.passes <= TxBatchMax - last_poll.entry
               /\ \/ last_poll.filled = TxBatchMax
                  \/ last_poll.work = 0
        /\ last_poll.entry >= TxLowWater => last_poll.passes = 0

\* C8 witness: a refill fed by a provider that never runs dry ended after
\* many passes with the queue full.
C8_Witness ==
    /\ (last_poll.called /\ last_poll.qp = ThisQp)
    /\ last_poll.passes = TxBatchMax
    /\ last_poll.filled = TxBatchMax
    /\ last_poll.work > 0

(***************************************************************************)
(* Properties of the forwarding decision (checked under SpecFwd)           *)
(***************************************************************************)
\* the qp whose proxies the call on record consulted
FwdQp == _queues[fwd.src]

\* C4: with a non-empty proxy list the destination is chosen by
\* index = (hash >> _rss_table_bits) mod (number of proxies + 1): index 0 is
\* the source core, index k >= 1 the k-th proxy; so for proxies [A, B] the
\* indices 0, 1, 2 give self, A, B, cycling with the modulo.
C4_ForwardIndex ==
    (fwd.op # "none" /\ proxies[FwdQp] # <<>>) =>
        LET n == Len(proxies[FwdQp])
            index == (fwd.hash \div (2 ^ _rss_table_bits)) % (n + 1)
        IN  fwd.ret = (<<fwd.src>> \o proxies[FwdQp])[index + 1]

\* C4 witness: with two proxies, a hash whose shifted value is past the
\* modulus (it has cycled) selected the second proxy, which is not the
\* source core.
C4_Witness ==
    /\ fwd.op = "forward_dst"
    /\ Len(proxies[FwdQp]) = 2
    /\ fwd.hash \div (2 ^ _rss_table_bits) = 5
    /\ fwd.ret = proxies[FwdQp][2]
    /\ fwd.ret # fwd.src

\* C5: when the qp selected for a hash (the one of core hash2qid(hash) =
\* hash mod hw_queues_count, the core the hash originates on) has no proxies,
\* hash2cpu returns that core, for every hash; so does forward_dst for the
\* source core it is given.
C5_NoProxiesKeepsLocal ==
    (fwd.op # "none" /\ proxies[FwdQp] = <<>>) =>
        /\ fwd.ret = fwd.src
        /\ fwd.op = "hash2cpu" => fwd.ret = fwd.hash % hw_queues

\* C5 witness: hash2cpu, called on another core, returned the core of the
\* selected queue, which has no proxies, while the caller's own qp has some.
C5_Witness ==
    /\ fwd.op = "hash2cpu"
    /\ proxies[FwdQp] = <<>>
    /\ fwd.ret # 0
    /\ fwd.caller # fwd.ret
    /\ proxies[_queues[fwd.caller]] # <<>>

(***************************************************************************)
(* Properties of the cores of one device (checked under SpecSmp)           *)
(***************************************************************************)
\* C6: a slot of _queues holds one qp at most and, once it holds one, keeps
\* it: a set_local_queue call on a core whose slot is occupied aborts the
\* process and leaves the slot as it was, and nothing runs after an abort.
C6_SlotNeverReplaced ==
    [][/\ ~aborted
       /\ \A c \in Cores :
            /\ _queues[c] # Null => _queues'[c] = _queues[c]
            /\ _queues'[c] \in QPs \cup {Null}
            /\ (_queues[c] # Null /\ \E q \in QPs : SetLocalQueue(c, q))
                   => aborted']_vars

\* C6 witness: a second set_local_queue on core 1 has aborted the process;
\* both slots still hold the qps installed first.
C6_Witness ==
    /\ aborted
    /\ \A c \in Cores : _queues[c] # Null

\* what a step leaves of qp q, its proxy inbound queue apart
HomeOwnedUnchanged(q) ==
    /\ _pkt_providers'[q] = _pkt_providers[q]
    /\ proxies'[q] = proxies[q]
    /\ _tx_packetq'[q] = _tx_packetq[q]
    /\ _packets_snt'[q] = _packets_snt[q]
    /\ _last_tx_bunch'[q] = _last_tx_bunch[q]

ByteOf(v, k) == (v \div (256 ^ k)) % 256

\* the w bytes of v from the least to the most significant
LittleEndian(w, v) == [k \in 1 .. w |-> ByteOf(v, k - 1)]

RECURSIVE ExpectedBytes(_)
\* the bytes the recorded calls stand for, in call order
ExpectedBytes(log) ==
    IF log = <<>> THEN <<>>
    ELSE LittleEndian(Head(log)[1], Head(log)[2]) \o ExpectedBytes(Tail(log))

\* the two 16-bit halves of v pushed low half first
PushedAsHalves(h, v) ==
    PushBackU16(PushBackU16(h, v % 65536), v \div 65536)

\* the four bytes of v pushed one by one from the least significant
PushedAsBytes(h, v) ==
    PushBackU8(PushBackU8(PushBackU8(PushBackU8(h,
        ByteOf(v, 0)), ByteOf(v, 1)), ByteOf(v, 2)), ByteOf(v, 3))

\* C10: while the 1-, 2- and 4-byte pushes made on a forward_hash total at
\* most 64 bytes, no assert has failed, size() is the number of bytes pushed
\* and operator[] returns, position by position, the bytes of the pushed
\* values in push order, each value least significant byte first; and where
\* four more bytes fit, push_back of a 32-bit value leaves the object as
\* pushing its low then its high 16-bit half does, and as pushing its four
\* bytes from the least to the most significant does.
C10_HashRoundTrip ==
    LET exp == ExpectedBytes(pushed)
        h == ThisHash
    IN  Len(exp) <= HashCapacity =>
            /\ ~aborted
            /\ Size(h) = Len(exp)
            /\ \A i \in 0 .. (Len(exp) - 1) : At(h, i) = exp[i + 1]
            /\ Len(exp) + 4 <= HashCapacity =>
                   \A v \in U32Values :
                       /\ PushBackU32(h, v) = PushedAsHalves(h, v)
                       /\ PushBackU32(h, v) = PushedAsBytes(h, v)

\* C10 witness: a forward_hash filled to exactly 64 bytes whose last three
\* pushes were one of each width.
C10_Witness ==
    /\ ~aborted
    /\ end_idx = HashCapacity
    /\ Len(pushed) >= 3
    /\ {pushed[i][1] : i \in (Len(pushed) - 2) .. Len(pushed)} = {1, 2, 4}

\* C11: a forward_hash never holds more than 64 bytes: once the pushes made
\* total more than 64 bytes an assert has failed and the process is gone,
\* and while it runs the object holds every byte pushed; whatever was
\* written, also by the push that failed, sits at its own position behind
\* the earlier bytes (nothing wrapped around, was dropped or cut short).
C11_HashNeverOverfull ==
    LET exp == ExpectedBytes(pushed)
    IN  /\ end_idx <= HashCapacity
        /\ Len(exp) > HashCapacity => aborted
        /\ ~aborted => end_idx = Len(exp)
        /\ end_idx <= Len(exp)
        /\ \A i \in 0 .. (end_idx - 1) : data[i] = exp[i + 1]

\* C11 witness: a 4-byte push on a forward_hash holding 62 bytes has written
\* two bytes and then failed the assert.
C11_Witness ==
    /\ aborted
    /\ end_idx = HashCapacity
    /\ Len(ExpectedBytes(pushed)) = HashCapacity + 2
    /\ pushed[Len(pushed)][1] = 4

(***************************************************************************)
(* Properties of the accesses through _queues (checked under SpecDev)      *)
(***************************************************************************)
\* C12: an access the device makes (queue_for_cpu, local_queue, l2receive,
\* receive, forward_dst, hash2cpu) through the slot of a core that has no
\* qp installed aborts the process: it never carries on with an absent qp.
C12_AbsentQueueAborts ==
    /\ deref.got # "absent"
    /\ deref.got = "fault" => aborted

(***************************************************************************)
(* Properties of the interface (checked under SpecIf)                      *)
(***************************************************************************)
\* C13: dispatching a frame whose protocol number is not in the protocol
\* map drops it: the call leaves the protocol map, every protocol's stream,
\* every proxy queue, receive stream and batch queue as they were, invokes
\* no handler, and ends without a failure (no abort, no failed future); and
\* a protocol that is not registered has no frame waiting or handled.
C13_UnknownProtoDropped ==
    /\ [](\A proto \in Protos \ _proto_map :
            packet_stream[proto] = <<>> /\ rx_handled[proto] = <<>>)
    /\ [][\A f \in Frames(dispatched.n + 1) :
            (f.proto \notin _proto_map /\ DispatchPacket(IfCore, f)) =>
                /\ UNCHANGED <<_proto_map, packet_stream, rx_handled,
                               _proxy_packetq, _rx_stream, _tx_packetq>>
                /\ ~aborted'
                /\ dispatched'.did = "dropped"
                /\ ~dispatched'.failed]_vars

\* C13 witness: a frame of an unregistered protocol has been dropped after a
\* frame of a registered one had reached its handler.
C13_Witness ==
    /\ dispatched.did = "dropped"
    /\ dispatched.proto \notin _proto_map
    /\ dispatched.n = 2
    /\ \E proto \in _proto_map : Len(rx_handled[proto]) = 1

(***************************************************************************)
(* Properties of the packets on the egress path (checked under Spec)       *)
(***************************************************************************)
\* the number of times x occurs in the sequence seq
Count(x, seq) == Cardinality({i \in 1 .. Len(seq) : seq[i] = x})

\* the elements of the sequence seq
Range(seq) == {seq[i] : i \in 1 .. Len(seq)}

\* the invocation on record returned a packet
Returned(call) == call[3] # NoPacket

\* the packets the invocations of calls returned, in invocation order
Got(calls) ==
    LET r == SelectSeq(calls, Returned)
    IN  [k \in 1 .. Len(r) |-> r[k][3]]

\* the packets all the upper-layer providers have given so far
TotalGiven ==
    LET names == [i \in 1 .. 2 |-> IF i = 1 THEN "ip" ELSE "arp"]
    IN  given[names[1]] + given[names[2]]

\* C14: packets are neither duplicated nor lost on the egress path.  No
\* packet is in the proxy queue and the batch queue at once, or twice in
\* either; the queue handed to send holds what was queued at entry and each
\* packet a provider returned in the call exactly once; a packet the proxy
\* provider returned has left the proxy queue in that call; the default
\* send passes each packet of the batch to send(packet) exactly once; and
\* every packet pulled so far is either still queued or counted as sent.
C14_NoDupNoLoss ==
    /\ \A q \in QPs :
          LET all == _proxy_packetq[q] \o _tx_packetq[q]
          IN  \A i, j \in 1 .. Len(all) : i # j => all[i] # all[j]
    /\ last_poll.called =>
          LET got == Got(last_poll.calls)
          IN  /\ Len(last_poll.handed) = Len(last_poll.before) + Len(got)
              /\ \A x \in Range(last_poll.handed) \cup Range(got) :
                     /\ Count(x, last_poll.handed) = 1
                     /\ Count(x, last_poll.before) + Count(x, got) = 1
              /\ \A x \in Range(got) :
                     x \notin Range(_proxy_packetq[last_poll.qp])
              /\ batch_send[last_poll.qp] = "default" =>
                     /\ Len(last_poll.single) = Len(last_poll.handed)
                     /\ \A x \in Range(last_poll.handed) :
                            Count(x, last_poll.single) = 1
    /\ TotalGiven + Len(proxy_out[ThisQp]) =
           _packets_snt[ThisQp] + Len(_tx_packetq[ThisQp])

\* C14 witness: one call has pulled packets from an upper-layer provider and
\* two from the proxy queue, and the default send has passed them all on.
C14_Witness ==
    /\ last_poll.called
    /\ batch_send[last_poll.qp] = "default"
    /\ last_poll.drained = 2
    /\ Len(last_poll.single) = TxBatchMax
    /\ _proxy_packetq[last_poll.qp] = <<>>

(***************************************************************************)
(* Properties of a qp with many providers (checked under SpecMany and      *)
(* SpecManyLive)                                                           *)
(***************************************************************************)
\* the packets proxy_send may have been given
ProxyPackets == {<<"proxy", n>> : n \in 1 .. MaxProxySend}

\* the place of packet p in the proxy queue of q, 0 when it is not there
Position(p, q) ==
    LET at == {i \in 1 .. Len(_proxy_packetq[q]) : _proxy_packetq[q][i] = p}
    IN  IF at = {} THEN 0 ELSE CHOOSE i \in at : TRUE

\* the providers of q that have traffic and stand ahead of the proxy lambda
BusyAhead(q) ==
    Cardinality({i \in 1 .. Len(_pkt_providers[q]) :
                    /\ _pkt_providers[q][i] \in busy
                    /\ \A j \in 1 .. i : _pkt_providers[q][j] # "proxy"})

\* the poll_tx calls the poller of q is still sure to make
PollsLeft(q) ==
    IF _packets_snt[q] < MaxSntMany
    THEN ((MaxSntMany - 1 - _packets_snt[q]) \div TxBatchMax) + 1
    ELSE 0

\* packet p waits in the proxy queue of q, add_proxy has been called on q, q
\* has the default batch send, and the poller will call poll_tx at least as
\* many times as packets wait up to p
Waiting(p, q) ==
    /\ Position(p, q) >= 1
    /\ proxies[q] # <<>>
    /\ batch_send[q] = "default"
    /\ Position(p, q) <= PollsLeft(q)

\* the last poll_tx call passed p to send(packet)
PassedToSend(p) == p \in Range(last_poll.single)

C16_RegistrationOrder ==
    /\ [](last_poll.called =>
            LET calls == last_poll.calls
                n == Len(last_poll.provs)
            IN  /\ calls # <<>> => calls[1][1] = 1 /\ calls[1][2] = 1
                /\ \A k \in 1 .. Len(calls) :
                     /\ calls[k][2] \in 1 .. n
                     /\ Returned(calls[k]) =>
                            calls[k][3][1] = last_poll.provs[calls[k][2]]
                /\ \A k \in 1 .. (Len(calls) - 1) :
                     \/ /\ calls[k + 1][1] = calls[k][1]
                        /\ calls[k + 1][2] = calls[k][2] + 1
                     \/ /\ calls[k + 1][1] = calls[k][1] + 1
                        /\ calls[k][2] = n
                        /\ calls[k + 1][2] = 1
                /\ Len(calls) = last_poll.asked
                /\ SubSeq(last_poll.handed, last_poll.entry + 1,
                          Len(last_poll.handed)) = Got(calls))
    /\ [][\A q \in QPs : IsPrefix(_pkt_providers[q], _pkt_providers'[q])]_vars

\* C16 witness: a call went many times over two providers, the second
\* registered by add_proxy after an upper layer's, took two packets of the
\* proxy queue and ended, the batch full, after the first provider.
C16_Witness ==
    /\ last_poll.called
    /\ last_poll.provs = <<"ip", "proxy">>
    /\ last_poll.drained = 2
    /\ last_poll.filled = TxBatchMax
    /\ Len(last_poll.calls) = 2 * last_poll.passes - 1

\* every provider registered at the last poll_tx call was invoked in it
AllAsked ==
    \A i \in 1 .. Len(last_poll.provs) :
        \E k \in 1 .. Len(last_poll.calls) : last_poll.calls[k][2] = i

\* a call that found 16 packets or more invoked no provider and handed the
\* queue it found to send
NoRefillAtLowWater ==
    last_poll.entry >= TxLowWater =>
        /\ last_poll.calls = <<>>
        /\ last_poll.asked = 0
        /\ last_poll.handed = last_poll.before

\* C17 as stated: poll_tx refills only below the low-water mark; a call
\* that finds 16 packets or more invokes no provider and hands the queue on
\* unchanged, a call that finds fewer than 16 asks every provider at least
\* once.
C17_RefillBelowLowWater ==
    last_poll.called =>
        /\ NoRefillAtLowWater
        /\ last_poll.entry < TxLowWater => AllAsked

\* C17 amended: the same, except that a call that finds fewer than 16
\* packets asks every provider at least once unless the batch reaches 128
\* packets before the first pass over the providers has ended.
C17_RefillBelowLowWaterUnlessFull ==
    last_poll.called =>
        /\ NoRefillAtLowWater
        /\ last_poll.entry < TxLowWater =>
               AllAsked \/ (last_poll.filled = TxBatchMax /\ last_poll.passes = 1)

\* C17 witness: a backend left exactly 16 packets of a full batch behind
\* and the next call, with providers that had packets, asked none of them.
C17_Witness ==
    /\ last_poll.called
    /\ last_poll.entry = TxLowWater
    /\ last_poll.provs # <<>>
    /\ busy # {}
    /\ last_poll.calls = <<>>
    /\ last_poll.handed = last_poll.before

(***************************************************************************)
(* Properties of the statistics and of the default send (checked under     *)
(* Spec)                                                                   *)
(***************************************************************************)
\* C18: the sent-packet counter of each qp is the sum of the counts its
\* batch send returned, the last-batch-size statistic of the polled qp is
\* the count the most recent send returned, a poll_tx call that finds the
\* batch empty changes neither, the counter never decreases, and with the
\* default batch send the counter is the number of packets pulled from the
\* providers.
C18_SentCounter ==
    /\ [](/\ \A q \in QPs : _packets_snt[q] = send_total[q]
          /\ (last_poll.called /\ last_poll.filled > 0) =>
                 _last_tx_bunch[last_poll.qp] = last_poll.sent
          /\ batch_send[ThisQp] = "default" =>
                 _packets_snt[ThisQp] = TotalGiven + Len(proxy_out[ThisQp]))
    /\ [][\A q \in QPs :
            /\ _packets_snt'[q] >= _packets_snt[q]
            /\ (PollTx(q) /\ last_poll'.filled = 0) =>
                   /\ _packets_snt'[q] = _packets_snt[q]
                   /\ _last_tx_bunch'[q] = _last_tx_bunch[q]
                   /\ ~last_poll'.ret]_vars

\* C18 witness: two calls of the default send each sent one packet of the
\* proxy queue; the statistic holds the second count and the counter their
\* sum.
C18_Witness ==
    /\ batch_send[ThisQp] = "default"
    /\ last_poll.called
    /\ last_poll.sent = 1
    /\ _last_tx_bunch[ThisQp] = 1
    /\ _packets_snt[ThisQp] = 2
    /\ Len(proxy_out[ThisQp]) = 2

\* the default send on queue p passes p to send(packet) front to back,
\* leaves nothing and returns the length of p
DefaultSendDrains(p) ==
    LET r == DefaultSend(p)
    IN  /\ r.single = p
        /\ r.rest = <<>>
        /\ r.sent = Len(p)

\* C19: the default batch send passes every queued packet to the
\* single-packet send in front-to-back order, leaves the queue empty and
\* returns the length the queue had at entry, 0 for an empty queue: so it
\* does on the empty queue, on the queue of every qp, on the queue the last
\* poll_tx call handed to send, and so the last poll_tx call of a qp with
\* the default send did.
C19_DefaultSendInOrder ==
    /\ DefaultSend(<<>>) = [sent |-> 0, rest |-> <<>>, single |-> <<>>]
    /\ \A q \in QPs : DefaultSendDrains(_tx_packetq[q])
    /\ DefaultSendDrains(last_poll.handed)
    /\ (last_poll.called /\ batch_send[last_poll.qp] = "default") =>
           /\ last_poll.single = last_poll.handed
           /\ last_poll.sent = Len(last_poll.handed)
           /\ _tx_packetq[last_poll.qp] = <<>>

\* C19 witness: the default send was handed a full batch that began with an
\* upper layer's first packet and held a packet of the proxy queue, and
\* passed all of it on.
C19_Witness ==
    /\ last_poll.called
    /\ batch_send[last_poll.qp] = "default"
    /\ last_poll.sent = TxBatchMax
    /\ Len(last_poll.single) = TxBatchMax
    /\ last_poll.single[1] = <<"ip", 1>>
    /\ last_poll.single[2] = <<"proxy", 1>>

\* the packets of seq that provider pr produced, in the order of seq
OfProvider(pr, seq) == SelectSeq(seq, LAMBDA p : p[1] = pr)

\* the packets provider pr has produced for ThisQp so far (each provider
\* numbers its packets 1, 2, ... as it produces them)
Produced(pr) == IF pr = "proxy" THEN Len(proxy_out[ThisQp]) ELSE given[pr]

\* the packets of provider pr the backend of ThisQp has received so far
Received(pr) == Produced(pr) - Len(OfProvider(pr, _tx_packetq[ThisQp]))

\* C20: packets of the same provider reach the backend in the order the
\* provider produced them, across poll_tx calls.  The queue handed to send
\* is the queue left by the call before followed by the newly pulled
\* packets; the backend takes a front part of it (the default send passes
\* that part to send(packet) front first) and the rest stays queued; what
\* stays queued of a provider are its latest packets in order; and in each
\* call the backend receives, of each provider, the packets that follow
\* those it had received before, in order.
C20_ProviderFifo ==
    /\ [](/\ last_poll.called =>
               /\ last_poll.handed = last_poll.before \o Got(last_poll.calls)
               /\ last_poll.sent <= Len(last_poll.handed)
               /\ _tx_packetq[last_poll.qp] =
                      SubSeq(last_poll.handed, last_poll.sent + 1,
                             Len(last_poll.handed))
               /\ batch_send[last_poll.qp] = "default" =>
                      last_poll.single =
                          SubSeq(last_poll.handed, 1, last_poll.sent)
          /\ \A pr \in Uppers \cup {"proxy"} :
               LET w == OfProvider(pr, _tx_packetq[ThisQp])
               IN  \A i \in 1 .. Len(w) : w[i][2] = Received(pr) + i)
    /\ [][PollTx(ThisQp) =>
            \A pr \in Uppers \cup {"proxy"} :
                LET got == OfProvider(pr, SubSeq(last_poll'.handed, 1,
                                                 last_poll'.sent))
                IN  /\ \A i \in 1 .. Len(got) : got[i][2] = Received(pr) + i
                    /\ Received(pr)' = Received(pr) + Len(got)]_vars

\* C20 witness: a backend had left packets of a batch behind; the next call
\* pulled packets of an upper layer and of the proxy queue behind them and
\* the backend took some of the old and some of the new.
C20_Witness ==
    /\ last_poll.called
    /\ batch_send[ThisQp] = "backend"
    /\ last_poll.entry \in 1 .. (TxLowWater - 1)
    /\ last_poll.drained >= 1
    /\ last_poll.sent > last_poll.entry
    /\ last_poll.sent < Len(last_poll.handed)

(***************************************************************************)
(* Properties of hash2cpu (checked under SpecFwd)                          *)
(***************************************************************************)
\* C21: for every hash and every state of the proxy lists, hash2cpu returns
\* q = hash2qid(hash) = hash mod hw_queues_count or an entry of the proxy
\* list of the qp of q, and the index forward_dst computes is within that
\* list: it is 0 (standing for q itself) or idx - 1 is a position of the
\* list (0 .. size - 1), the one whose entry is returned.  So it was for the
\* call on record.
C21_Hash2CpuInRange ==
    /\ \A hash \in Hashes :
         LET q == Hash2Qid(hash)
             list == proxies[QueueForCpu(q)]
             idx == ForwardDstIndex(q, hash)
             ret == Hash2CpuValue(hash)
         IN  /\ q = hash % hw_queues
             /\ q \in Cores
             /\ idx \in 0 .. Len(list)
             /\ idx # 0 => (idx - 1) \in 0 .. (Len(list) - 1)
             /\ ret = IF idx = 0 THEN q ELSE list[idx]
             /\ ret = q \/ ret \in Range(list)
    /\ fwd.op = "hash2cpu" =>
           /\ fwd.src = fwd.hash % hw_queues
           /\ fwd.ret = fwd.src \/ fwd.ret \in Range(proxies[FwdQp])

\* C21 witness: hash2cpu, asked on core 0 about a hash of queue 1 whose qp
\* has two proxies, computed the last index of the list and returned its
\* last entry.
C21_Witness ==
    /\ fwd.op = "hash2cpu"
    /\ fwd.caller = 0
    /\ fwd.src = 1
    /\ Len(proxies[FwdQp]) = 2
    /\ ForwardDstIndex(fwd.src, fwd.hash) = 2
    /\ fwd.ret = proxies[FwdQp][2]

\* C22: hash2cpu is deterministic and does not depend on the calling core.
\* A hash2cpu call made right after another with the same hash, from any
\* core, with nothing changed in between, returns what that one returned;
\* and every call, whatever the caller, returns the value the hash, the
\* proxy lists, _rss_table_bits and the hardware queue count determine.
C22_Hash2CpuSameOnAllCores ==
    /\ []((fwd.op = "hash2cpu" /\ fwd.twin # <<>>) => fwd.ret = fwd.twin[2])
    /\ [][\A c \in Cores, hash \in Hashes :
            Hash2Cpu(c, hash) =>
                /\ fwd'.ret = Hash2CpuValue(hash)
                /\ fwd'.src = Hash2Qid(hash)
                /\ \A other \in Cores :
                     ENABLED Hash2Cpu(other, hash)]_vars

\* C22 witness: with two hardware queues, core 1 asked about a hash of
\* queue 0 right after core 0 had, and both were given the same proxy of
\* the qp of core 0, which is neither's own answer for no proxies.
C22_Witness ==
    /\ fwd.op = "hash2cpu"
    /\ hw_queues = 2
    /\ fwd.caller = 1
    /\ fwd.twin # <<>>
    /\ fwd.twin[1] = 0
    /\ fwd.src = 0
    /\ fwd.ret = fwd.twin[2]
    /\ fwd.ret = 1
    /\ proxies[FwdQp] # <<>>

(***************************************************************************)
(* Properties of frame injection (checked under SpecDev)                   *)
(***************************************************************************)
\* C23: l2receive called on core c, whose slot holds a qp, produces the
\* frame at the end of the receive stream of that qp and changes nothing
\* else: not the stream of any other qp, not the proxy queue, the batch
\* queue, the provider list, the proxy list or the counters of any qp, its
\* own included, not a listener and not a slot of the device; and it does
\* not end the process.
C23_L2ReceiveLocalOnly ==
    [][\A c \in Cores :
          (_queues[c] # Null /\ L2Receive(c, NextRxPacket)) =>
              /\ _rx_stream'[_queues[c]] =
                     Append(_rx_stream[_queues[c]], NextRxPacket)
              /\ \A q \in QPs \ {_queues[c]} : _rx_stream'[q] = _rx_stream[q]
              /\ UNCHANGED <<_proxy_packetq, _tx_packetq, _pkt_providers,
                             proxies, _packets_snt, _last_tx_bunch,
                             proxy_in, proxy_out, rx_listener, _queues>>
              /\ deref'.got = "qp"
              /\ ~aborted']_vars

\* C23 witness: both cores have installed a qp; a frame was injected on
\* core 0 and then one on core 1; each is in the stream of its core's qp.
C23_Witness ==
    /\ \A c \in Cores : _queues[c] # Null
    /\ _queues[0] # _queues[1]
    /\ deref.op = "l2receive"
    /\ deref.core = 1
    /\ _rx_stream[_queues[0]] = << <<"rx", 1>> >>
    /\ _rx_stream[_queues[1]] = << <<"rx", 2>> >>

=============================================================================
